---------------------------- MODULE Spec2Model ----------------------------
(***************************************************************************)
(* A model of lib/Socket/socket.js (makeSocket): connection setup, the     *)
(* message-tag generator, raw sends, one-shot waits for the next frame,    *)
(* the initial event buffering and the unexpected-error policy.            *)
(*                                                                         *)
(* Texts (error messages, base64url output) are sequences of one-character *)
(* strings, so that includes() and toLowerCase() are computed, not assumed.*)
(***************************************************************************)
EXTENDS Naturals, Sequences, FiniteSets, TLC

(***************************************************************************)
(* Bounds of the model.                                                    *)
(***************************************************************************)
MaxTags == 4
MaxSends == 2
MaxWaits == 2
MaxEmits == 2
MaxErrors == 2
MaxSignals == 2

(***************************************************************************)
(* The value standing for JavaScript's undefined.                          *)
(***************************************************************************)
Undefined == [type |-> "undefined"]

VARIABLES
    config,           \* the config object given to makeSocket
    creds,            \* authState.creds, shared with the signal repository
    sock,             \* "none": makeSocket not called, "thrown", "made"
    thrown,           \* the error makeSocket threw, or Undefined
    wsUrl,            \* the url handed to new WebSocketClient, or Undefined
    connectAttempts,  \* number of ws.connect() calls
    wsState,          \* the transport: "connecting", "open" (ws.isOpen) or "closed"
    wire,             \* the byte frames handed to ws.send, in order
    noise,            \* the frame codec: [established, writeCounter]
    sends,            \* the sendRawMessage calls that reached ws.send
    epoch,            \* let epoch = 1
    tags,             \* the tags generateMessageTag has returned, in call order
    waits,            \* the awaitNextMessage promises and their ws listeners
    evMode,           \* the event buffer: "Live" or "Buffering"
    evQueue,          \* the events held while buffering, in order
    delivered,        \* the events dispatched to the listeners of ev, in order
    didStartBuffer,   \* set when this connection called ev.buffer()
    emitted,          \* history: the ev.emit calls made since ev.buffer(), in order
    uploads,          \* the uploadPreKeysToServerIfRequired(true) calls
    timers,           \* the armed back-off timers (their delays)
    logged,           \* the log lines written, as a set of their messages
    calls,            \* how many calls of each bounded operation were made
    last              \* the last call into the socket and how it returned

setupVars == <<config, sock, thrown, wsUrl, connectAttempts>>
wsVars == <<wsState, wire, noise, sends>>
tagVars == <<epoch, tags>>
evVars == <<evMode, evQueue, delivered, didStartBuffer, emitted>>
errVars == <<uploads, timers>>
vars == <<config, creds, sock, thrown, wsUrl, connectAttempts, wsState, wire,
          noise, sends, epoch, tags, waits, evMode, evQueue, delivered,
          didStartBuffer, emitted, uploads, timers, logged, calls, last>>

(***************************************************************************)
(* makeSocket: url parsing, validation and the routing parameter.          *)
(***************************************************************************)
Schemes == {"wss", "ws", "tcp"}

\* new URL(waWebSocketUrl): the protocol field is the scheme followed by ':'.
ParseURL(scheme) == [protocol |-> scheme \o ":", searchParams |-> << >>]

Boom(message, statusCode) == [message |-> message, statusCode |-> statusCode]

\* A mutation of Unsupported: the mobile flag is not looked at.
UnsupportedTcpOnly(cfg, url) == url.protocol = "tcp:"

\* A mutation of Unsupported: every protocol but 'wss:' is refused.
UnsupportedNotWss(cfg, url) == cfg.mobile \/ url.protocol # "wss:"

\* config.mobile || url.protocol === 'tcp:'
Unsupported(cfg, url) == cfg.mobile \/ url.protocol = "tcp:"

Base64Alphabet ==
    << "A","B","C","D","E","F","G","H","I","J","K","L","M","N","O","P",
       "Q","R","S","T","U","V","W","X","Y","Z","a","b","c","d","e","f",
       "g","h","i","j","k","l","m","n","o","p","q","r","s","t","u","v",
       "w","x","y","z","0","1","2","3","4","5","6","7","8","9","-","_" >>

B64(i) == Base64Alphabet[i + 1]

\* Buffer.toString('base64url'): 6-bit groups, most significant first, no padding.
RECURSIVE Base64Url(_)
Base64Url(bytes) ==
    IF Len(bytes) = 0 THEN << >>
    ELSE IF Len(bytes) = 1 THEN
        << B64(bytes[1] \div 4), B64((bytes[1] % 4) * 16) >>
    ELSE IF Len(bytes) = 2 THEN
        << B64(bytes[1] \div 4),
           B64((bytes[1] % 4) * 16 + bytes[2] \div 16),
           B64((bytes[2] % 16) * 4) >>
    ELSE
        << B64(bytes[1] \div 4),
           B64((bytes[1] % 4) * 16 + bytes[2] \div 16),
           B64((bytes[2] % 16) * 4 + bytes[3] \div 64),
           B64(bytes[3] % 64) >>
        \o Base64Url(SubSeq(bytes, 4, Len(bytes)))

\* if (url.protocol === 'wss' && authState?.creds?.routingInfo)
\*     url.searchParams.append('ED', routingInfo.toString('base64url'))
RoutedUrl(url, cr) ==
    IF url.protocol = "wss" /\ cr.routingInfo # Undefined
    THEN [url EXCEPT !.searchParams = Append(@, <<"ED", Base64Url(cr.routingInfo.bytes)>>)]
    ELSE url

(***************************************************************************)
(* makeSocket, lines 20-52: what construction leaves behind.               *)
(***************************************************************************)
NoWait == [state |-> "unused", outcome |-> Undefined, first |-> Undefined,
           attached |-> {}, late |-> FALSE]

Constructed ==
    /\ wsState = "connecting"
    /\ wire = << >>
    /\ noise = [established |-> FALSE, writeCounter |-> 0]
    /\ sends = << >>
    /\ epoch = 1
    /\ tags = << >>
    /\ waits = [i \in 1..MaxWaits |-> NoWait]
    /\ evMode = "Live"
    /\ evQueue = << >>
    /\ delivered = << >>
    /\ didStartBuffer = FALSE
    /\ emitted = << >>
    /\ uploads = << >>
    /\ timers = << >>
    /\ logged = {}
    /\ calls = [emit |-> 0, error |-> 0, signal |-> 0]
    /\ last = [op |-> "makeSocket", res |-> "returned"]

(***************************************************************************)
(* generateMessageTag, lines 47-52.                                        *)
(***************************************************************************)
\* `${uqTagId}${epoch++}`: the value of the template string.
NextTag(prefix, n) == prefix \o ToString(n)

\* A mutation of EpochAfter: the counter is not advanced.
EpochAfterStuck(n) == n

\* epoch++: the counter after the call.
EpochAfter(n) == n + 1

generateMessageTag ==
    /\ sock = "made"
    /\ Len(tags) < MaxTags
    /\ tags' = Append(tags, NextTag(config.uqTagId, epoch))
    /\ epoch' = EpochAfter(epoch)
    /\ last' = [op |-> "generateMessageTag", res |-> "returned"]
    /\ UNCHANGED <<setupVars, creds, wsVars, waits, evVars, errVars, logged, calls>>

(***************************************************************************)
(* The transport client and the frame codec, as socket.js uses them.       *)
(***************************************************************************)
isOpen == wsState = "open"

\* No promise reaction is waiting to run: the current task has ended.
Idle == \A i \in 1..MaxWaits : waits[i].state # "settled"

Nodes == {[tag |-> "iq"], [tag |-> "message"]}

\* encodeBinaryNode(frame): the bytes of a node.
EncodeBinaryNode(node) == [encoded |-> node]

\* The buffers given to sendRawMessage.
Data == {EncodeBinaryNode(n) : n \in Nodes}

\* A mutation of EncodeFrame: before the handshake the data is framed in clear.
EncodeFramePlain(n, data) ==
    IF n.established
    THEN [noise |-> [n EXCEPT !.writeCounter = @ + 1],
          bytes |-> [ctr |-> n.writeCounter, data |-> data],
          err |-> "none"]
    ELSE [noise |-> n, bytes |-> [ctr |-> n.writeCounter, data |-> data], err |-> "none"]

\* noise.encodeFrame(data): encrypts with the send counter, then advances it.
EncodeFrame(n, data) ==
    IF n.established
    THEN [noise |-> [n EXCEPT !.writeCounter = @ + 1],
          bytes |-> [ctr |-> n.writeCounter, data |-> data],
          err |-> "none"]
    ELSE [noise |-> n, bytes |-> Undefined, err |-> "NotEstablished"]

\* The transport opens: ws.isOpen becomes true.
wsOpened ==
    /\ sock = "made" /\ Idle
    /\ wsState = "connecting"
    /\ wsState' = "open"
    /\ UNCHANGED <<setupVars, creds, wire, noise, sends, tagVars, waits, evVars,
                   errVars, logged, calls, last>>

\* The handshake reply was processed: the codec is established.
handshakeEstablished ==
    /\ sock = "made" /\ Idle
    /\ isOpen /\ ~noise.established
    /\ noise' = [noise EXCEPT !.established = TRUE]
    /\ UNCHANGED <<setupVars, creds, wsState, wire, sends, tagVars, waits, evVars,
                   errVars, logged, calls, last>>

(***************************************************************************)
(* sendRawMessage and sendNode, lines 53-77.  The part of the state a send *)
(* touches is passed as a record, for the creds.update listener sends too. *)
(***************************************************************************)
SendState == [wsState |-> wsState, noise |-> noise, wire |-> wire, sends |-> sends]

\* A mutation of SendRaw: the frame is encoded before ws.isOpen is looked at.
SendRawEncodeFirst(st, data, origin) ==
    LET enc == EncodeFrame(st.noise, data) IN
    IF enc.err # "none" THEN [st |-> st, res |-> enc.err]
    ELSE IF st.wsState # "open"
    THEN [st |-> [st EXCEPT !.noise = enc.noise], res |-> "Connection Closed"]
    ELSE [st |-> [st EXCEPT !.noise = enc.noise,
                            !.wire = Append(@, enc.bytes),
                            !.sends = Append(@, [origin |-> origin,
                                                 state |-> "inflight",
                                                 cb |-> TRUE])],
          res |-> "inflight"]

\* A mutation of SendRaw: the new frame is handed over ahead of the earlier ones.
SendRawOvertaking(st, data, origin) ==
    IF st.wsState # "open" THEN [st |-> st, res |-> "Connection Closed"]
    ELSE LET enc == EncodeFrame(st.noise, data) IN
         IF enc.err # "none" THEN [st |-> st, res |-> enc.err]
         ELSE [st |-> [st EXCEPT !.noise = enc.noise,
                                 !.wire = << enc.bytes >> \o @,
                                 !.sends = Append(@, [origin |-> origin,
                                                      state |-> "inflight",
                                                      cb |-> TRUE])],
               res |-> "inflight"]

\* sendRawMessage up to its first suspension: the open check, encodeFrame,
\* and sendPromise.call(ws, bytes) inside the promiseTimeout executor.
SendRaw(st, data, origin) ==
    IF st.wsState # "open" THEN [st |-> st, res |-> "Connection Closed"]
    ELSE LET enc == EncodeFrame(st.noise, data) IN
         IF enc.err # "none" THEN [st |-> st, res |-> enc.err]
         ELSE [st |-> [st EXCEPT !.noise = enc.noise,
                                 !.wire = Append(@, enc.bytes),
                                 !.sends = Append(@, [origin |-> origin,
                                                      state |-> "inflight",
                                                      cb |-> TRUE])],
               res |-> "inflight"]

ApplySend(r) ==
    /\ wsState' = r.st.wsState
    /\ noise' = r.st.noise
    /\ wire' = r.st.wire
    /\ sends' = r.st.sends

sendRawMessageOf(data) ==
    /\ sock = "made" /\ Idle
    /\ Len(sends) < MaxSends
    /\ LET r == SendRaw(SendState, data, "caller") IN
         /\ ApplySend(r)
         /\ last' = [op |-> "sendRawMessage", res |-> r.res]
    /\ UNCHANGED <<setupVars, creds, tagVars, waits, evVars, errVars, logged, calls>>

sendRawMessage == \E data \in Data : sendRawMessageOf(data)

sendNode ==
    /\ sock = "made" /\ Idle
    /\ Len(sends) < MaxSends
    /\ \E frame \in Nodes :
         LET r == SendRaw(SendState, EncodeBinaryNode(frame), "caller") IN
         /\ ApplySend(r)
         /\ last' = [op |-> "sendNode", res |-> r.res]
    /\ UNCHANGED <<setupVars, creds, tagVars, waits, evVars, errVars, logged, calls>>

\* A mutation of SettleSend: a later completion replaces the outcome.
SettleSendAgain(s, how) == [s EXCEPT !.state = how]

\* The outcome of one send: the transport's callback, or the timeout.
SettleSend(s, how) == IF s.state = "inflight" THEN [s EXCEPT !.state = how] ELSE s

\* .catch(err => logger.warn(...)) of the listener's sendNode, lines 152-154.
PresenceFailure(s) ==
    IF s.origin = "presence" /\ s.state = "inflight"
    THEN {"error in sending presence update on name change"} ELSE {}

\* ws.send calls back without an error.
sendAccepted(i) ==
    /\ Idle /\ i \in 1..Len(sends) /\ sends[i].cb
    /\ sends' = [sends EXCEPT ![i] = [SettleSend(@, "resolved") EXCEPT !.cb = FALSE]]
    /\ UNCHANGED <<setupVars, creds, wsState, wire, noise, tagVars, waits, evVars,
                   errVars, logged, calls, last>>

\* ws.send calls back with an error.
sendFailed(i) ==
    /\ Idle /\ i \in 1..Len(sends) /\ sends[i].cb
    /\ sends' = [sends EXCEPT ![i] = [SettleSend(@, "rejected") EXCEPT !.cb = FALSE]]
    /\ logged' = logged \cup PresenceFailure(sends[i])
    /\ UNCHANGED <<setupVars, creds, wsState, wire, noise, tagVars, waits, evVars,
                   errVars, calls, last>>

\* promiseTimeout(connectTimeoutMs, ...) expires before the callback.
sendTimedOut(i) ==
    /\ Idle /\ i \in 1..Len(sends) /\ sends[i].state = "inflight"
    /\ sends' = [sends EXCEPT ![i] = SettleSend(@, "timedout")]
    /\ logged' = logged \cup PresenceFailure(sends[i])
    /\ UNCHANGED <<setupVars, creds, wsState, wire, noise, tagVars, waits, evVars,
                   errVars, calls, last>>

(***************************************************************************)
(* The event buffer (makeEventBuffer), as socket.js uses it: buffer(),     *)
(* emit() and flush(), and the listener socket.js registers on it.         *)
(* The part of the state an emit can touch is passed as a record.          *)
(***************************************************************************)
NoName == "<undefined>"
Absent == "<absent>"

\* creds.me?.name, update.me?.name
NameOf(obj) ==
    IF "me" \notin DOMAIN obj \/ obj.me = Undefined THEN NoName ELSE obj.me.name

\* A mutation of ObjectAssign: the target is replaced by the source.
ObjectAssignReplace(target, source) == source

\* Object.assign(target, source)
ObjectAssign(target, source) ==
    [f \in DOMAIN target \cup DOMAIN source |->
        IF f \in DOMAIN source THEN source[f] ELSE target[f]]

ConnectionUpdate(connection, received, qr) ==
    [name |-> "connection.update",
     data |-> [connection |-> connection, receivedPendingNotifications |-> received,
               qr |-> qr]]

\* Merging two connection.update payloads: the later fields override.
MergeUpdate(a, b) == [f \in DOMAIN a |-> IF b[f] # Absent THEN b[f] ELSE a[f]]

World == [creds |-> creds, st |-> SendState, logged |-> logged, mode |-> evMode,
          queue |-> evQueue, delivered |-> delivered, emitted |-> emitted]

\* ev.on('creds.update', update => ...), lines 142-157.
CredsUpdateListener(w, update) ==
    LET name == NameOf(update) IN
    IF NameOf(w.creds) # name
    THEN LET r == SendRaw(w.st, EncodeBinaryNode([tag |-> "presence", name |-> name]),
                          "presence") IN
         [w EXCEPT !.st = r.st, !.creds = ObjectAssign(w.creds, update),
                   !.logged = IF r.res = "inflight" THEN @
                              ELSE @ \cup {"error in sending presence update on name change"}]
    ELSE [w EXCEPT !.creds = ObjectAssign(w.creds, update)]

\* An event reaches the listeners of ev.
Dispatch(w, e) ==
    LET w1 == [w EXCEPT !.delivered = Append(@, e)] IN
    IF e.name = "creds.update" THEN CredsUpdateListener(w1, e.data) ELSE w1

\* Appending to the queue; consecutive connection.update events coalesce.
Enqueue(q, e) ==
    IF e.name = "connection.update" /\ Len(q) > 0 /\ q[Len(q)].name = "connection.update"
    THEN [q EXCEPT ![Len(q)].data = MergeUpdate(@, e.data)]
    ELSE Append(q, e)

\* ev.emit(name, data)
EvEmit(w, e) ==
    IF w.mode = "Buffering"
    THEN [w EXCEPT !.queue = Enqueue(@, e), !.emitted = Append(@, e)]
    ELSE Dispatch(w, e)

\* ev.buffer()
EvBuffer(w) == [w EXCEPT !.mode = "Buffering"]

RECURSIVE DispatchAll(_, _)
DispatchAll(w, q) ==
    IF q = << >> THEN w ELSE DispatchAll(Dispatch(w, Head(q)), Tail(q))

\* ev.flush(): the queue is dispatched in order, then the buffer is Live.
EvFlush(w) ==
    [DispatchAll(w, w.queue) EXCEPT !.mode = "Live", !.queue = << >>, !.emitted = << >>]

ApplyWorld(w) ==
    /\ creds' = w.creds
    /\ wsState' = w.st.wsState
    /\ noise' = w.st.noise
    /\ wire' = w.st.wire
    /\ sends' = w.st.sends
    /\ logged' = w.logged
    /\ evMode' = w.mode
    /\ evQueue' = w.queue
    /\ delivered' = w.delivered
    /\ emitted' = w.emitted

(***************************************************************************)
(* awaitNextMessage, lines 102-129, and the transport events that reach    *)
(* its listeners.  A wait is "pending" until its promise settles; the      *)
(* .finally callback that removes the listeners runs as a promise reaction *)
(* after the settling call returns ("settled" until then, "done" after).   *)
(***************************************************************************)
Frames == {[tag |-> "t1"], [tag |-> "t2"]}
WsErrors == {[message |-> "ECONNRESET"]}

WsEvent(ev, arg) == [ev |-> ev, arg |-> arg]

\* mapWebSocketError(handler), lines 192-196: the error handed to reject.
MapWebSocketError(error) == [message |-> "WebSocket Error", data |-> error]

\* The rejection of promiseTimeout when the delay expires.
TimedOut == [message |-> "Timed Out", data |-> Undefined]

Resolved(value) == [kind |-> "resolved", value |-> value]
Rejected(error) == [kind |-> "rejected", error |-> error]

\* resolve(value) / reject(error) of the wait's promise: only the first call counts.
Settle(w, outcome) ==
    IF w.state = "pending"
    THEN [w EXCEPT !.state = "settled", !.outcome = outcome]
    ELSE [w EXCEPT !.late = TRUE]

\* A mutation of OnFrame: only the frame tagged t1 resolves the wait.
OnFrameTagged(w, frame) == IF frame.tag = "t1" THEN Settle(w, Resolved(frame)) ELSE w

\* onOpen = resolve; ws.on('frame', onOpen)
OnFrame(w, frame) == Settle(w, Resolved(frame))

\* onClose = mapWebSocketError(reject); ws.on('close', onClose); ws.on('error', onClose)
OnClose(w, error) == Settle(w, Rejected(MapWebSocketError(error)))

\* History: the first event that occurred after the wait was created.
Note(w, e) ==
    IF w.state # "unused" /\ w.first = Undefined THEN [w EXCEPT !.first = e] ELSE w

\* ws.emit(ev, arg) as seen by one wait: its listener for ev, if still attached.
Reach(w, e) ==
    IF e.ev \notin w.attached THEN Note(w, e)
    ELSE IF e.ev = "frame" THEN OnFrame(Note(w, e), e.arg)
    ELSE OnClose(Note(w, e), e.arg)

WsEmit(e) == waits' = [i \in 1..MaxWaits |-> Reach(waits[i], e)]

\* A mutation of Detach: the error listener stays.
DetachKeepError(w) == [w EXCEPT !.state = "done", !.attached = @ \cap {"error"}]

\* .finally(() => { ws.off('frame', onOpen); ws.off('close', onClose); ws.off('error', onClose) })
Detach(w) == [w EXCEPT !.state = "done", !.attached = @ \ {"frame", "close", "error"}]

FreeWait == CHOOSE i \in 1..MaxWaits :
                waits[i].state = "unused" /\ \A j \in 1..(i - 1) : waits[j].state # "unused"

awaitNextMessage ==
    /\ sock = "made" /\ Idle
    /\ \E i \in 1..MaxWaits : waits[i].state = "unused"
    /\ \E sendMsg \in {Undefined} \cup Data :
         IF ~isOpen
         THEN /\ last' = [op |-> "awaitNextMessage", res |-> "Connection Closed"]
              /\ UNCHANGED <<creds, wsVars, waits, evVars, logged>>
         ELSE /\ waits' = [waits EXCEPT ![FreeWait] =
                              [@ EXCEPT !.state = "pending",
                                        !.attached = {"frame", "close", "error"}]]
              /\ LET w0 == IF sendMsg # Undefined THEN EvBuffer(World) ELSE World
                     w1 == EvEmit(w0, ConnectionUpdate("connecting", "false", "undefined"))
                 IN  ApplyWorld(w1)
              /\ didStartBuffer' = (didStartBuffer \/ sendMsg # Undefined)
              /\ last' = [op |-> "awaitNextMessage", res |-> "pending"]
    /\ UNCHANGED <<setupVars, tagVars, errVars, calls>>

\* The transport emits 'frame'.
wsFrame ==
    /\ sock = "made" /\ isOpen
    /\ \E f \in Frames : WsEmit(WsEvent("frame", f))
    /\ UNCHANGED <<setupVars, creds, wsVars, tagVars, evVars, errVars, logged, calls, last>>

\* The transport emits 'error'.
wsError ==
    /\ sock = "made" /\ wsState # "closed"
    /\ \E e \in WsErrors : WsEmit(WsEvent("error", e))
    /\ UNCHANGED <<setupVars, creds, wsVars, tagVars, evVars, errVars, logged, calls, last>>

\* The transport closes and emits 'close'.
wsClose ==
    /\ sock = "made" /\ wsState # "closed"
    /\ wsState' = "closed"
    /\ WsEmit(WsEvent("close", Undefined))
    /\ UNCHANGED <<setupVars, creds, wire, noise, sends, tagVars, evVars, errVars,
                   logged, calls, last>>

\* The delay of promiseTimeout(connectTimeoutMs, ...) expires.
waitTimedOut(i) ==
    /\ Idle /\ waits[i].state = "pending"
    /\ waits' = [waits EXCEPT ![i] =
                    Settle(Note(@, WsEvent("timeout", Undefined)), Rejected(TimedOut))]
    /\ UNCHANGED <<setupVars, creds, wsVars, tagVars, evVars, errVars, logged, calls, last>>

\* The .finally callback of a settled wait runs.
waitFinally(i) ==
    /\ waits[i].state = "settled"
    /\ waits' = [waits EXCEPT ![i] = Detach(@)]
    /\ UNCHANGED <<setupVars, creds, wsVars, tagVars, evVars, errVars, logged, calls, last>>

(***************************************************************************)
(* ws.on('CB:ib,,offline', ...), lines 131-140, and emits by the rest of   *)
(* the client through the ev the socket hands out.                         *)
(***************************************************************************)
OfflineCounts == {Absent, "3"}

\* +(child?.attrs.count || 0), as it prints in the log line.
OfflineNotifs(count) == IF count = Absent THEN "0" ELSE count

ReceivedPending == ConnectionUpdate(Absent, "true", Absent)

\* A mutation of OnOffline: the update is emitted before the flush.
OnOfflineEmitFirst(w, started) ==
    LET w1 == EvEmit(w, ReceivedPending) IN
    IF started THEN EvFlush(w1) ELSE w1

\* if (didStartBuffer) { ev.flush() }
\* ev.emit('connection.update', { receivedPendingNotifications: true })
OnOffline(w, started) ==
    LET w1 == IF started THEN EvFlush(w) ELSE w IN
    EvEmit(w1, ReceivedPending)

offlineSignal ==
    /\ sock = "made" /\ isOpen
    /\ calls.signal < MaxSignals
    /\ \E count \in OfflineCounts :
         LET w0 == [World EXCEPT !.logged = @ \cup
                      {"handled " \o OfflineNotifs(count) \o " offline messages/notifications"}]
         IN ApplyWorld(OnOffline(w0, didStartBuffer))
    /\ calls' = [calls EXCEPT !.signal = @ + 1]
    /\ UNCHANGED <<setupVars, tagVars, waits, didStartBuffer, errVars, last>>

CredsUpdates ==
    { [me |-> [name |-> "alice"]],
      [me |-> [name |-> "bob"], platform |-> "smba"],
      [platform |-> "android"] }

Events ==
    { [name |-> "creds.update", data |-> u] : u \in CredsUpdates }
    \cup { [name |-> "messages.upsert", data |-> [type |-> "notify"]],
           ConnectionUpdate("open", Absent, Absent) }

\* Another part of the client calls ev.emit.
evEmitOf(e) ==
    /\ sock = "made" /\ Idle
    /\ calls.emit < MaxEmits
    /\ ApplyWorld(EvEmit(World, e))
    /\ calls' = [calls EXCEPT !.emit = @ + 1]
    /\ UNCHANGED <<setupVars, tagVars, waits, didStartBuffer, errVars, last>>

evEmit == \E e \in Events : evEmitOf(e)

\* The key store (auth.keys) emits creds.update.
credsUpdate == \E u \in CredsUpdates : evEmitOf([name |-> "creds.update", data |-> u])

(***************************************************************************)
(* onUnexpectedError, lines 78-100.                                        *)
(***************************************************************************)
MaxBackoffMs == 30000
DefaultBackoffMs == 5000

UpperCase == << "A", "B", "C", "D", "E", "F", "G", "H", "I", "J", "K", "L", "M", "N", "O", "P", "Q", "R", "S", "T", "U", "V", "W", "X", "Y", "Z" >>
LowerCase == << "a", "b", "c", "d", "e", "f", "g", "h", "i", "j", "k", "l", "m", "n", "o", "p", "q", "r", "s", "t", "u", "v", "w", "x", "y", "z" >>

LowerChar(c) ==
    IF \E i \in 1..Len(UpperCase) : UpperCase[i] = c
    THEN LowerCase[CHOOSE i \in 1..Len(UpperCase) : UpperCase[i] = c]
    ELSE c

\* String.prototype.toLowerCase
ToLowerCase(text) == [i \in 1..Len(text) |-> LowerChar(text[i])]

\* String.prototype.includes
Includes(text, pat) ==
    \E i \in 1..(Len(text) + 1) :
        /\ i + Len(pat) - 1 <= Len(text)
        /\ SubSeq(text, i, i + Len(pat) - 1) = pat

BadMacText == << "b", "a", "d", " ", "m", "a", "c" >>
MacText == << "m", "a", "c" >>
InvalidText == << "i", "n", "v", "a", "l", "i", "d" >>
Code429Text == << "4", "2", "9" >>
RateLimitText == << "r", "a", "t", "e", " ", "l", "i", "m", "i", "t" >>

\* The error values: an Error (its stack starts with its name and message), an
\* object with a message only, an object with neither, a string, null, undefined.
\* An absent stack or message is the empty text: both are falsy.
ErrorObject(message) ==
    [kind |-> "Error", message |-> message,
     stack |-> << "E", "r", "r", "o", "r", ":", " " >> \o message \o << "\n", " ", "a", "t" >>,
     str |-> << "E", "r", "r", "o", "r", ":", " " >> \o message]
MessageOnly(message) ==
    [kind |-> "object", message |-> message, stack |-> << >>, str |-> << "[", "o", "b", "j", "e", "c", "t", " ", "O", "b", "j", "e", "c", "t", "]" >>]
BareObject ==
    [kind |-> "object", message |-> << >>, stack |-> << >>, str |-> << "[", "o", "b", "j", "e", "c", "t", " ", "O", "b", "j", "e", "c", "t", "]" >>]
PlainString(text) == [kind |-> "string", message |-> << >>, stack |-> << >>, str |-> text]
NullError == [kind |-> "null", message |-> << >>, stack |-> << >>, str |-> << "n", "u", "l", "l" >>]
UndefinedError ==
    [kind |-> "undefined", message |-> << >>, stack |-> << >>, str |-> << "u", "n", "d", "e", "f", "i", "n", "e", "d" >>]

ErrorTexts ==
    { << "B", "a", "d", " ", "M", "A", "C" >>, << "I", "n", "v", "a", "l", "i", "d", " ", "M", "A", "C", " ", "t", "a", "g" >>, << "m", "a", "c", "r", "o" >>,
      << "s", "t", "a", "t", "u", "s", " ", "4", "2", "9" >>, << "R", "a", "t", "e", " ", "L", "i", "m", "i", "t", " ", "h", "i", "t" >>,
      << "B", "a", "d", " ", "M", "A", "C", " ", "4", "2", "9" >>, << "t", "i", "m", "e", "o", "u", "t" >> }

ErrorValues ==
    { ErrorObject(t) : t \in ErrorTexts } \cup { MessageOnly(t) : t \in ErrorTexts }
    \cup { PlainString(t) : t \in ErrorTexts } \cup { BareObject, NullError, UndefinedError }

\* (err && ((err.stack || err.message) || String(err))): the value before
\* .toLowerCase() is called on it.
ErrorText(err) ==
    IF err.stack # << >> THEN err.stack
    ELSE IF err.message # << >> THEN err.message
    ELSE err.str

\* .toLowerCase() of null or undefined is a TypeError.
Throws(err) == err.kind \in {"null", "undefined"}

\* A mutation of IsMacError: 'mac' alone is taken for a MAC mismatch.
IsMacErrorLoose(message) == Includes(message, BadMacText) \/ Includes(message, MacText)

\* message.includes('bad mac') || (message.includes('mac') && message.includes('invalid'))
IsMacError(message) ==
    Includes(message, BadMacText)
    \/ (Includes(message, MacText) /\ Includes(message, InvalidText))

\* message.includes('429') || message.includes('rate limit')
IsRateLimit(message) == Includes(message, Code429Text) \/ Includes(message, RateLimitText)

Min(a, b) == IF a <= b THEN a ELSE b

Backoffs ==
    { [defined |-> FALSE, ms |-> 0], [defined |-> TRUE, ms |-> 0],
      [defined |-> TRUE, ms |-> 1000], [defined |-> TRUE, ms |-> 30000],
      [defined |-> TRUE, ms |-> 45000] }

\* A mutation of BackoffWait: the delay is not capped.
BackoffWaitUncapped(b) == IF b.defined /\ b.ms # 0 THEN b.ms ELSE DefaultBackoffMs

\* Math.min(30000, (config.backoffDelayMs || 5000))
BackoffWait(b) ==
    Min(MaxBackoffMs, IF b.defined /\ b.ms # 0 THEN b.ms ELSE DefaultBackoffMs)

\* The ways uploadPreKeysToServerIfRequired(true) can go at the call: it throws,
\* or it returns a promise that settles later.
UploadBehaviours == {"threw", "inflight"}

\* A mutation of MacRecovery: a synchronous throw of the upload is not caught.
MacRecoveryUncaught(ups, message, how) ==
    IF IsMacError(message)
    THEN Append(ups, [state |-> IF how = "threw" THEN "escaped" ELSE how])
    ELSE ups

\* try { uploadPreKeysToServerIfRequired(true).catch(...) } catch (_e) { }
MacRecovery(ups, message, how) ==
    IF IsMacError(message) THEN Append(ups, [state |-> how]) ELSE ups

\* setTimeout(() => {}, wait): the timer is armed and its handle dropped.
RateLimitBackoff(tms, message, b) ==
    IF IsRateLimit(message) THEN Append(tms, BackoffWait(b)) ELSE tms

Escaped(ups) == \E i \in 1..Len(ups) : ups[i].state = "escaped"

\* const message = (...).toLowerCase(), for each error value.
Message == [err \in {e \in ErrorValues : ~Throws(e)} |-> ToLowerCase(ErrorText(err))]

\* The body of onUnexpectedError on one error value: what it leaves in the
\* uploads, the timers and the log, and how it returns.
OnError(err, how, ups, tms, b) ==
    IF Throws(err)
    THEN [uploads |-> ups, timers |-> tms, logged |-> {"unexpected error"},
          res |-> "TypeError"]
    ELSE LET ups1 == MacRecovery(ups, Message[err], how) IN
         [uploads |-> ups1,
          timers |-> RateLimitBackoff(tms, Message[err], b),
          logged |-> {"unexpected error"}
                     \cup (IF IsRateLimit(Message[err])
                           THEN {"backing off due to rate limit"} ELSE {}),
          res |-> IF Escaped(ups1) THEN "threw" ELSE "returned"]

onUnexpectedError ==
    /\ sock = "made" /\ Idle
    /\ calls.error < MaxErrors
    /\ calls' = [calls EXCEPT !.error = @ + 1]
    /\ \E err \in ErrorValues, how \in UploadBehaviours :
         LET r == OnError(err, how, uploads, timers, config.backoffDelayMs) IN
         /\ uploads' = r.uploads
         /\ timers' = r.timers
         /\ logged' = logged \cup r.logged
         /\ last' = [op |-> "onUnexpectedError", res |-> r.res, err |-> err]
    /\ UNCHANGED <<setupVars, creds, wsVars, tagVars, waits, evVars>>

\* The promise of an upload settles; a rejection goes to
\* .catch(e => logger.warn({ e }, 'failed to re-upload prekeys after bad mac')).
uploadSettled(i) ==
    /\ Idle /\ i \in 1..Len(uploads) /\ uploads[i].state = "inflight"
    /\ \E how \in {"resolved", "rejected"} :
         /\ uploads' = [uploads EXCEPT ![i].state = how]
         /\ logged' = logged \cup (IF how = "rejected"
                                    THEN {"failed to re-upload prekeys after bad mac"}
                                    ELSE {})
    /\ UNCHANGED <<setupVars, creds, wsVars, tagVars, waits, evVars, timers, calls, last>>

\* A back-off timer fires: its callback is empty.
timerFired(i) ==
    /\ Idle /\ i \in 1..Len(timers)
    /\ timers' = [j \in 1..(Len(timers) - 1) |-> IF j < i THEN timers[j] ELSE timers[j + 1]]
    /\ UNCHANGED <<setupVars, creds, wsVars, tagVars, waits, evVars, uploads, logged,
                   calls, last>>

(***************************************************************************)
(* makeSocket, lines 20-31, from the arguments to the first connect.       *)
(***************************************************************************)
RoutingInfos ==
    {Undefined, [bytes |-> <<8>>], [bytes |-> <<8, 2>>], [bytes |-> <<8, 2, 255, 16>>]}
Users == {Undefined, [name |-> "alice"]}

Configs ==
    [mobile : BOOLEAN, waWebSocketUrl : Schemes, backoffDelayMs : Backoffs,
     uqTagId : {"3.7-"}]

Credentials == [me : Users, routingInfo : RoutingInfos, platform : {"web"}]

makeSocket ==
    /\ sock = "none"
    /\ LET url == ParseURL(config.waWebSocketUrl) IN
       IF Unsupported(config, url)
       THEN /\ sock' = "thrown"
            /\ thrown' = Boom("Mobile API is not supported anymore",
                              "DisconnectReason.loggedOut")
            /\ UNCHANGED <<wsUrl, connectAttempts>>
       ELSE /\ sock' = "made"
            /\ wsUrl' = RoutedUrl(url, creds)
            /\ connectAttempts' = connectAttempts + 1
            /\ UNCHANGED thrown
    /\ UNCHANGED <<config, creds, wsVars, tagVars, waits, evVars, errVars, logged,
                   calls, last>>

(***************************************************************************)
(* The specifications.  SpecSetup runs makeSocket on every configuration;  *)
(* Spec starts from a socket that makeSocket has returned.                 *)
(***************************************************************************)
InitSetup ==
    /\ config \in Configs
    /\ creds \in Credentials
    /\ sock = "none"
    /\ thrown = Undefined
    /\ wsUrl = Undefined
    /\ connectAttempts = 0
    /\ Constructed

NextSetup == makeSocket

SpecSetup == InitSetup /\ [][NextSetup]_vars

RunConfigs ==
    { c \in Configs : ~c.mobile /\ c.waWebSocketUrl = "wss"
                      /\ c.backoffDelayMs = [defined |-> FALSE, ms |-> 0] }
RunCredentials == { c \in Credentials : c.routingInfo = Undefined }

Init ==
    /\ config \in RunConfigs
    /\ creds \in RunCredentials
    /\ sock = "made"
    /\ thrown = Undefined
    /\ wsUrl = RoutedUrl(ParseURL(config.waWebSocketUrl), creds)
    /\ connectAttempts = 1
    /\ Constructed

Next ==
    \/ wsOpened \/ handshakeEstablished
    \/ generateMessageTag
    \/ sendRawMessage \/ sendNode
    \/ \E i \in 1..MaxSends : sendAccepted(i) \/ sendFailed(i) \/ sendTimedOut(i)
    \/ awaitNextMessage
    \/ wsFrame \/ wsError \/ wsClose
    \/ \E i \in 1..MaxWaits : waitTimedOut(i) \/ waitFinally(i)
    \/ offlineSignal \/ evEmit
    \/ onUnexpectedError
    \/ \E i \in 1..MaxErrors : uploadSettled(i) \/ timerFired(i)

Spec == Init /\ [][Next]_vars

\* The calls into the socket: tags, sends and the start of a wait.
NextSend ==
    \/ wsOpened \/ handshakeEstablished \/ wsClose
    \/ generateMessageTag
    \/ sendRawMessage \/ sendNode
    \/ \E i \in 1..MaxSends : sendAccepted(i) \/ sendFailed(i) \/ sendTimedOut(i)
    \/ awaitNextMessage

SpecSend == Init /\ [][NextSend]_vars

\* The waits and the transport events and timeouts that settle them.
NextWait ==
    \/ wsOpened
    \/ awaitNextMessage
    \/ wsFrame \/ wsError \/ wsClose
    \/ \E i \in 1..MaxWaits : waitTimedOut(i) \/ waitFinally(i)

SpecWait == Init /\ [][NextWait]_vars

\* The event buffer: what starts it, what fills it and what flushes it.
NextEv ==
    \/ wsOpened
    \/ awaitNextMessage
    \/ offlineSignal \/ evEmit

SpecEv == Init /\ [][NextEv]_vars

\* The unexpected-error policy beside the transport and the sends.
NextErr ==
    \/ wsOpened \/ handshakeEstablished
    \/ sendRawMessageOf(EncodeBinaryNode([tag |-> "iq"]))
    \/ wsClose
    \/ onUnexpectedError
    \/ \E i \in 1..MaxErrors : uploadSettled(i) \/ timerFired(i)

SpecErr == Init /\ [][NextErr]_vars

\* The creds.update listener beside the transport and its presence sends.
NextCreds ==
    \/ wsOpened \/ handshakeEstablished \/ wsClose
    \/ credsUpdate
    \/ \E i \in 1..MaxSends : sendAccepted(i) \/ sendFailed(i) \/ sendTimedOut(i)

SpecCreds == Init /\ [][NextCreds]_vars

\* The rate-limit policy under every configured base delay.
BackoffConfigs == { c \in Configs : ~c.mobile /\ c.waWebSocketUrl = "wss" }

InitBackoff ==
    /\ config \in BackoffConfigs
    /\ creds \in RunCredentials
    /\ sock = "made"
    /\ thrown = Undefined
    /\ wsUrl = RoutedUrl(ParseURL(config.waWebSocketUrl), creds)
    /\ connectAttempts = 1
    /\ Constructed

NextBackoff ==
    \/ wsOpened
    \/ onUnexpectedError
    \/ \E i \in 1..MaxErrors : timerFired(i)

SpecBackoff == InitBackoff /\ [][NextBackoff]_vars

(***************************************************************************)
(* The claims.                                                             *)
(***************************************************************************)

\* C1: the k-th generateMessageTag call of a connection returns the fixed prefix
\* followed by k, epoch is one more than the number of calls, and no two
\* returned tags are equal.
C1_TagsFollowEpoch ==
    /\ epoch = Len(tags) + 1
    /\ \A k \in 1..Len(tags) : tags[k] = config.uqTagId \o ToString(k)
    /\ \A j, k \in 1..Len(tags) : j # k => tags[j] # tags[k]

C1_Witness == Len(tags) >= 3

\* C2: with the mobile flag or a tcp endpoint makeSocket throws the logged-out
\* error, and whenever it threw, no client was created and no connect was made.
C2_MobileOrTcpThrowsFirst ==
    /\ sock = "thrown" =>
         /\ thrown.statusCode = "DisconnectReason.loggedOut"
         /\ wsUrl = Undefined
         /\ connectAttempts = 0
    /\ (sock # "none" /\ (config.mobile \/ config.waWebSocketUrl = "tcp")) =>
         sock = "thrown"

C2_Witness == sock = "thrown" /\ config.mobile /\ config.waWebSocketUrl = "wss"

\* C3 as stated: every endpoint whose scheme is not wss is rejected without a
\* connect, and only wss endpoints without the mobile flag connect.
C3_OnlyWssConnects ==
    /\ (sock # "none" /\ config.waWebSocketUrl # "wss") =>
         (sock = "thrown" /\ connectAttempts = 0)
    /\ sock = "made" => (config.waWebSocketUrl = "wss" /\ ~config.mobile)

\* C3 as amended: makeSocket rejects exactly the tcp endpoints and the
\* configurations with the mobile flag, before any connect; every other
\* endpoint (wss, and ws too) proceeds to one connect.
C3_RejectsExactlyMobileOrTcp ==
    sock # "none" =>
        /\ sock = "thrown" <=> (config.mobile \/ config.waWebSocketUrl = "tcp")
        /\ sock = "thrown" =>
             (thrown.statusCode = "DisconnectReason.loggedOut" /\ connectAttempts = 0)
        /\ sock = "made" => (wsUrl # Undefined /\ connectAttempts = 1)

C3_Witness ==
    sock = "made" /\ config.waWebSocketUrl = "ws" /\ ~config.mobile /\ connectAttempts = 1

\* C4 as stated: with routing info in the credentials and a wss endpoint the url
\* handed to the client carries ED = base64url(routing info); without routing
\* info it carries no ED parameter.
C4_RoutingInfoAppended ==
    sock = "made" =>
        IF creds.routingInfo # Undefined /\ config.waWebSocketUrl = "wss"
        THEN wsUrl.searchParams = << <<"ED", Base64Url(creds.routingInfo.bytes)>> >>
        ELSE wsUrl.searchParams = << >>

\* C5: a sendRawMessage, sendNode or awaitNextMessage call made while the
\* transport is not open fails with Connection Closed and changes nothing else:
\* the send counter, the bytes handed to the transport, the sends in flight,
\* the listeners and the event buffer stay as they were.
C5_ClosedCallsFail ==
    [][ ( /\ ~isOpen
          /\ last' # last
          /\ last'.op \in {"sendRawMessage", "sendNode", "awaitNextMessage"} )
        => ( /\ last'.res = "Connection Closed"
             /\ UNCHANGED <<noise, wire, sends, waits, wsState, creds, evVars,
                            tagVars, logged>> ) ]_vars

C5_Witness ==
    /\ wsState = "closed"
    /\ last = [op |-> "sendNode", res |-> "Connection Closed"]
    /\ noise.writeCounter = 1 /\ Len(wire) = 1

\* What each kind of first event must make of a wait.
OutcomeOf(e) ==
    CASE e.ev = "frame" -> Resolved(e.arg)
      [] e.ev \in {"close", "error"} ->
            Rejected([message |-> "WebSocket Error", data |-> e.arg])
      [] e.ev = "timeout" -> Rejected([message |-> "Timed Out", data |-> Undefined])

\* C6: a wait stays pending until the first frame, close, error or timeout after
\* its creation; that first event alone decides the outcome (the frame itself
\* whatever its tag, the mapped error, or the timeout), and once the wait has an
\* outcome no later event changes it or makes it pending again.
C6_SettledOnceByFirstEvent ==
    /\ [](\A i \in 1..MaxWaits :
            /\ waits[i].state = "pending" =>
                 (waits[i].first = Undefined /\ waits[i].outcome = Undefined)
            /\ waits[i].state \in {"settled", "done"} =>
                 (waits[i].first # Undefined /\ waits[i].outcome = OutcomeOf(waits[i].first)))
    /\ [][\A i \in 1..MaxWaits :
            waits[i].outcome # Undefined =>
                (waits'[i].outcome = waits[i].outcome /\ waits'[i].state # "pending")]_vars

C6_Witness ==
    \E i \in 1..MaxWaits :
        /\ waits[i].state \in {"settled", "done"}
        /\ waits[i].outcome = Resolved([tag |-> "t2"])
        /\ waits[i].late

\* C7 as stated: once a wait has settled its three listeners are gone and no
\* later event has reached it.
C7_SettledMeansDetached ==
    \A i \in 1..MaxWaits :
        waits[i].state \in {"settled", "done"} =>
            (waits[i].attached = {} /\ ~waits[i].late)

\* C7 as amended: the three listeners are removed by the wait's finally callback,
\* which runs after the settling call returns; once it has run the wait has no
\* listener left and no later transport event reaches or changes it.
C7_DetachedAfterFinally ==
    /\ [](\A i \in 1..MaxWaits : waits[i].state = "done" => waits[i].attached = {})
    /\ [][\A i \in 1..MaxWaits : waits[i].state = "done" => waits'[i] = waits[i]]_vars

C7_Witness ==
    \E i \in 1..MaxWaits :
        /\ waits[i].state = "done" /\ waits[i].attached = {}
        /\ waits[i].first.ev = "timeout"
        /\ wsState = "closed"

IsConnectionUpdate(e) == e.name = "connection.update"

\* What listeners must see of a run of emitted events: consecutive
\* connection.update events as one, the later fields overriding.
RECURSIVE Coalesce(_)
Coalesce(log) ==
    IF log = << >> THEN << >>
    ELSE LET rest == Coalesce(Tail(log)) IN
         IF IsConnectionUpdate(Head(log)) /\ rest # << >> /\ IsConnectionUpdate(Head(rest))
         THEN << [name |-> "connection.update",
                  data |-> [f \in DOMAIN Head(log).data |->
                               IF Head(rest).data[f] # Absent THEN Head(rest).data[f]
                               ELSE Head(log).data[f]]] >> \o Tail(rest)
         ELSE << Head(log) >> \o rest

\* C8: while the buffer this connection started is Buffering nothing is
\* delivered to listeners; the step that ends it (the offline signal) delivers
\* the events emitted since ev.buffer() in emission order (consecutive
\* connection.update events coalesced), and after all of them the
\* connection.update with receivedPendingNotifications = true.
C8_BufferedUntilOffline ==
    [][ evMode = "Buffering" =>
          /\ didStartBuffer
          /\ IF evMode' = "Buffering"
             THEN delivered' = delivered
             ELSE /\ calls'.signal = calls.signal + 1
                  /\ delivered' = delivered \o Coalesce(emitted)
                                     \o << ConnectionUpdate(Absent, "true", Absent) >> ]_vars

C8_Witness ==
    /\ didStartBuffer /\ evMode = "Live" /\ calls.signal = 1
    /\ Len(delivered) = 4
    /\ delivered[1] = ConnectionUpdate("connecting", "false", "undefined")
    /\ delivered[2].name = "creds.update"
    /\ delivered[3].name = "messages.upsert"
    /\ delivered[4] = ConnectionUpdate(Absent, "true", Absent)

\* C9 as stated: the buffer is switched to Buffering only for credentials of a
\* logged-in session; the offline signal flushes exactly when this connection
\* started the buffering, and leaves the buffer Live.
C9_CatchUpOnlyWhenLoggedIn ==
    /\ [](evMode = "Buffering" => creds.me # Undefined)
    /\ [][ calls'.signal = calls.signal + 1 =>
             /\ evMode' = "Live"
             /\ delivered' = delivered \o (IF didStartBuffer THEN evQueue ELSE << >>)
                                \o << ConnectionUpdate(Absent, "true", Absent) >> ]_vars

\* The error values whose text names a MAC mismatch.
MacTexts ==
    { << "B", "a", "d", " ", "M", "A", "C" >>,
      << "I", "n", "v", "a", "l", "i", "d", " ", "M", "A", "C", " ", "t", "a", "g" >>,
      << "B", "a", "d", " ", "M", "A", "C", " ", "4", "2", "9" >> }

HasMacText(err) ==
    err.kind \in {"Error", "object", "string"}
    /\ (err.message \in MacTexts \/ (err.kind = "string" /\ err.str \in MacTexts))

\* C10: an onUnexpectedError call with a MAC-mismatch error starts exactly one
\* prekey upload, returns normally, sends nothing and leaves the transport as it
\* is; an upload that throws is swallowed, and an upload whose promise rejects is
\* only logged, changing neither the transport nor what any caller got.
C10_MacErrorUploadsOnce ==
    /\ [][ (calls'.error = calls.error + 1 /\ HasMacText(last'.err)) =>
             /\ Len(uploads') = Len(uploads) + 1
             /\ SubSeq(uploads', 1, Len(uploads)) = uploads
             /\ uploads'[Len(uploads')].state \in {"threw", "inflight"}
             /\ last'.res = "returned"
             /\ UNCHANGED <<wsState, wire, sends, noise, waits>> ]_vars
    /\ [][ \A i \in 1..Len(uploads) :
               (uploads[i].state = "inflight" /\ uploads'[i].state = "rejected") =>
                   /\ "failed to re-upload prekeys after bad mac" \in logged'
                   /\ UNCHANGED <<wsState, wire, sends, noise, waits, last>> ]_vars

C10_Witness ==
    /\ Len(uploads) = 2 /\ isOpen
    /\ uploads[1].state = "threw" /\ uploads[2].state = "rejected"
    /\ "failed to re-upload prekeys after bad mac" \in logged
    /\ last.op = "onUnexpectedError" /\ last.res = "returned"


\* C11 as stated: while a back-off timer armed by onUnexpectedError has not yet
\* fired, no call hands bytes to the transport.
C11_SendsBlockedDuringBackoff ==
    [][ timers # << >> => wire' = wire ]_vars


\* The error values whose text carries a rate-limit indicator.
RateTexts ==
    { << "s", "t", "a", "t", "u", "s", " ", "4", "2", "9" >>,
      << "R", "a", "t", "e", " ", "L", "i", "m", "i", "t", " ", "h", "i", "t" >>,
      << "B", "a", "d", " ", "M", "A", "C", " ", "4", "2", "9" >> }

HasRateText(err) ==
    err.kind \in {"Error", "object", "string"}
    /\ (err.message \in RateTexts \/ (err.kind = "string" /\ err.str \in RateTexts))

\* The delay the policy prescribes for a configured base value.
PrescribedWait(b) ==
    IF ~b.defined \/ b.ms = 0 THEN 5000
    ELSE IF b.ms > 30000 THEN 30000 ELSE b.ms

\* C12: for every configured base delay (unset, zero, below, at and above
\* 30000) an onUnexpectedError call with a rate-limit error arms exactly one
\* timer, whose delay is min(30000, base) with base 5000 when unset or zero;
\* no armed delay ever exceeds 30000 ms.
C12_BackoffCapped ==
    /\ [](\A i \in 1..Len(timers) : timers[i] <= 30000)
    /\ [][ (calls'.error = calls.error + 1 /\ HasRateText(last'.err)) =>
             /\ Len(timers') = Len(timers) + 1
             /\ SubSeq(timers', 1, Len(timers)) = timers
             /\ timers'[Len(timers')] = PrescribedWait(config.backoffDelayMs) ]_vars

C12_Witness ==
    /\ config.backoffDelayMs = [defined |-> TRUE, ms |-> 45000]
    /\ timers = << 30000 >>
    /\ last.op = "onUnexpectedError" /\ HasRateText(last.err)


\* The error values whose text names neither a MAC mismatch nor a rate limit.
PlainTexts == { << "m", "a", "c", "r", "o" >>, << "t", "i", "m", "e", "o", "u", "t" >> }

HasPlainText(err) ==
    \/ err.kind \in {"Error", "object"} /\ err.message \in PlainTexts
    \/ err.kind = "string" /\ err.str \in PlainTexts
    \/ err.kind = "object" /\ err.message = << >> /\ err.stack = << >>

\* C13: an onUnexpectedError call with an error whose text names neither a MAC
\* mismatch nor a rate limit writes the error log line and nothing else: no
\* upload is started, no timer is armed, and the transport, the codec, the
\* sends, the epoch counter and the credentials stay as they were.
C13_OtherErrorsOnlyLogged ==
    [][ (calls'.error = calls.error + 1 /\ HasPlainText(last'.err)) =>
          /\ logged' = logged \cup {"unexpected error"}
          /\ last'.res = "returned"
          /\ UNCHANGED <<uploads, timers, wsState, noise, wire, sends, epoch, tags,
                         creds, waits, evVars>> ]_vars

C13_Witness ==
    /\ last.op = "onUnexpectedError" /\ last.res = "returned"
    /\ last.err.kind = "Error" /\ last.err.message = << "m", "a", "c", "r", "o" >>
    /\ uploads = << >> /\ timers = << >>
    /\ isOpen /\ Len(wire) = 1
    /\ logged = {"unexpected error"}


\* The events delivered to the listeners by one step.
NewlyDelivered == SubSeq(delivered', Len(delivered) + 1, Len(delivered'))

\* What a credentials object must be after the updates in a run of events:
\* the fields of each update overwritten in turn, every other field kept.
RECURSIVE MergedAll(_, _)
MergedAll(c, log) ==
    IF log = << >> THEN c
    ELSE IF Head(log).name # "creds.update" THEN MergedAll(c, Tail(log))
    ELSE LET u == Head(log).data IN
         MergedAll([f \in DOMAIN c \cup DOMAIN u |-> IF f \in DOMAIN u THEN u[f] ELSE c[f]],
                   Tail(log))

\* C14: every creds.update event that reaches the listener is merged into the
\* one credentials object: the fields of the update take its values, every
\* other field keeps its value, nothing else ever changes the credentials, and
\* the merge happens whether or not the presence send of the same update
\* fails.
C14_CredsMergedInPlace ==
    [][ /\ Len(delivered') >= Len(delivered)
        /\ creds' = MergedAll(creds, NewlyDelivered)
        /\ \A f \in DOMAIN creds : f \in DOMAIN creds' ]_vars

C14_Witness ==
    /\ creds = [me |-> [name |-> "bob"], platform |-> "smba", routingInfo |-> Undefined]
    /\ delivered = << [name |-> "creds.update",
                       data |-> [me |-> [name |-> "bob"], platform |-> "smba"]] >>
    /\ wsState = "closed" /\ wire = << >>
    /\ "error in sending presence update on name change" \in logged


\* C19 as stated: a step hands a presence node to the transport only when it
\* delivers a creds.update that carries a name, and that name differs from the
\* name in the credentials before the merge; an update without a name sends
\* nothing.
C19_PresenceOnlyOnNewName ==
    [][ Len(wire') > Len(wire) =>
          ( /\ wire'[Len(wire')].data.encoded.tag = "presence"
            /\ \E k \in 1..Len(NewlyDelivered) :
                 /\ NewlyDelivered[k].name = "creds.update"
                 /\ NameOf(NewlyDelivered[k].data) # NoName
                 /\ NameOf(NewlyDelivered[k].data) # NameOf(creds) ) ]_vars


\* C15: whatever sends are in flight together, the frames reach the transport
\* in the order the codec encrypted them: the k-th frame handed to ws.send
\* carries the k-th value of the send counter, and the counter has advanced
\* once per frame handed over.
C15_EncodeOrderIsWireOrder ==
    /\ noise.writeCounter = Len(wire)
    /\ \A k \in 1..Len(wire) : wire[k].ctr = k - 1

C15_Witness ==
    /\ Len(sends) = 2 /\ Len(wire) = 2
    /\ sends[1].state = "inflight" /\ sends[2].state = "inflight"
    /\ wire[1].data # wire[2].data
    /\ last.op = "sendNode"


\* C16: a sendRawMessage or sendNode call made on an open transport whose codec
\* is not yet established fails with NotEstablished and leaves the transport,
\* the codec and the sends as they were; bytes have been handed to the
\* transport only in states where the handshake is established.
C16_NoSendBeforeEstablished ==
    /\ [](wire # << >> => noise.established)
    /\ [][ ( /\ isOpen /\ ~noise.established
             /\ last' # last
             /\ last'.op \in {"sendRawMessage", "sendNode"} )
           => ( /\ last'.res = "NotEstablished"
                /\ UNCHANGED <<wire, sends, noise, wsState>> ) ]_vars

C16_Witness ==
    /\ isOpen /\ ~noise.established
    /\ last = [op |-> "sendRawMessage", res |-> "NotEstablished"]
    /\ wire = << >> /\ sends = << >>


\* C17: a send in flight gets its outcome from the first of the transport's
\* acceptance, the transport's error and the timeout; once it has one, no later
\* completion changes it; and a timeout changes nothing but the outcome of that
\* one call: the transport stays open, the codec, the wire, the other sends and
\* the waits stay as they were.
C17_SendSettlesOnce ==
    /\ [][ \A i \in 1..Len(sends) :
             /\ sends'[i].origin = sends[i].origin
             /\ sends[i].state # "inflight" => sends'[i].state = sends[i].state
             /\ sends'[i].state \in {"inflight", "resolved", "rejected", "timedout"} ]_vars
    /\ [][ \A i \in 1..Len(sends) :
             (sends[i].state = "inflight" /\ sends'[i].state = "timedout") =>
                 /\ \A j \in 1..Len(sends) : j # i => sends'[j] = sends[j]
                 /\ UNCHANGED <<wsState, noise, wire, waits, creds, evVars, errVars>> ]_vars

C17_Witness ==
    /\ Len(sends) = 2 /\ isOpen
    /\ sends[1].state = "timedout" /\ ~sends[1].cb
    /\ sends[2].state = "resolved"


\* C18 as stated: the step that closes the connection cancels the back-off
\* timers armed by earlier onUnexpectedError calls: none is armed after it.
C18_CloseCancelsBackoff ==
    [][ (wsState # "closed" /\ wsState' = "closed") => timers' = << >> ]_vars


\* C20 as stated: every onUnexpectedError call returns normally, whatever the
\* error value (null and undefined included), after writing the error log
\* line and starting at most one upload and one timer; an error whose text
\* names both a MAC mismatch and a rate limit starts both.
C20_NeverThrows ==
    [][ calls'.error = calls.error + 1 =>
          /\ last'.res = "returned"
          /\ "unexpected error" \in logged'
          /\ Len(uploads') <= Len(uploads) + 1
          /\ Len(timers') <= Len(timers) + 1
          /\ (HasMacText(last'.err) /\ HasRateText(last'.err)) =>
                (Len(uploads') = Len(uploads) + 1 /\ Len(timers') = Len(timers) + 1) ]_vars

=============================================================================
